---- MODULE Spec2Model ----
(***************************************************************************)
(* Model of dns.transaction.Transaction: the high level API (get, add,     *)
(* replace, delete, delete_exact, name_exists, set_serial, iteration), its *)
(* argument helpers, and the context-manager protocol, run against an      *)
(* in-memory backend that follows the documented contract of the low level *)
(* API (Spec) and against one whose operations may raise                   *)
(* (BackendErrorSpec); and of dns._immutable_attr, the protocol that makes *)
(* objects immutable once constructed (ImmutableSpec).                     *)
(***************************************************************************)
EXTENDS Integers, Sequences, FiniteSets, TLC

VARIABLES
    read_only,        \* Transaction.read_only
    replacement,      \* Transaction.replacement
    immutableStore,   \* does the backend keep ImmutableRdataset values?
    store,            \* backend content: (name, selector) -> Rdataset or None
    prev,             \* the backend content when the last high level call began
    last,             \* the last high level call: op, args, error, backend calls, result
    ncalls,           \* number of calls made so far (high level calls, __enter__)
    depth,            \* number of scoped blocks currently entered
    endCalls,         \* commit flags of all _end_transaction invocations, in order
    lastExit,         \* the last __exit__: cause, _end_transaction calls, propagated error
    fault,            \* the backend operation of the last call that raised, and its error
    obj               \* an object of a class decorated with @immutable

vars == <<read_only, replacement, immutableStore, store, prev, last, ncalls,
          depth, endCalls, lastExit, fault, obj>>

-----------------------------------------------------------------------------
(* Bounds *)

MaxCalls == 2

-----------------------------------------------------------------------------
(* Values *)

None == [kind |-> "None"]

NoError == "NoError"

ClassIN == 1
SOA == 6
NONE == 0

\* dns.ttl.MAX_TTL (2^31 - 1) and the largest serial (0xffffffff) exceed the
\* integers of the model checker: both ranges are scaled down, and every
\* comparison against them is kept as the code makes it
MAX_TTL == 1000
MAX_SERIAL == 40

Names == {<<"a">>, <<"b">>}

Texts == {"a"}

\* dns.name.from_text(text, None): a relative name of the labels of the text
from_text(t) == <<t>>

\* the selector of address records (rdatatype A is 1)
SelA == <<ClassIN, 1, NONE>>
SelSOA == <<ClassIN, SOA, NONE>>
Sels == {SelA, SelSOA}

Keys == Names \X Sels

RdataA == {[rdclass |-> ClassIN, rdtype |-> SelA[2], data |-> d] : d \in {1, 2}}
RdataSOA == {[rdclass |-> ClassIN, rdtype |-> SOA, data |-> s] : s \in {10, MAX_SERIAL}}

\* rdata.covers() is NONE for every type but the signature types
RdataSel(rd) == <<rd.rdclass, rd.rdtype, NONE>>

-----------------------------------------------------------------------------
(* Record Set Algebra (dns.rdataset): record sets are values               *)
(* [sel, ttl, items, imm]; imm tells an ImmutableRdataset from an Rdataset *)

\* dns.rdataset.Rdataset(rdclass, rdtype, covers, ttl): an empty mutable set
Rdataset(sel, ttl) ==
    [kind |-> "Rdataset", sel |-> sel, ttl |-> ttl, items |-> {}, imm |-> FALSE]

\* dns.rdataset.ImmutableRdataset(rdataset): an immutable copy
ImmutableRdataset(rds) == [rds EXCEPT !.imm = TRUE]

\* Rdataset.update_ttl: the new TTL of an empty set, else the smaller TTL
update_ttl(rds, ttl) ==
    IF rds.items = {} \/ ttl < rds.ttl THEN [rds EXCEPT !.ttl = ttl] ELSE rds

\* Rdataset.union_update / Rdataset.update applied to a mutable working value
union_update(rds, other) ==
    [update_ttl(rds, other.ttl) EXCEPT !.items = rds.items \cup other.items]

\* a.union(b): a fresh mutable value
union(a, b) == union_update([a EXCEPT !.imm = FALSE], b)

\* a.intersection(b): a fresh mutable value
intersection(a, b) ==
    [update_ttl([a EXCEPT !.imm = FALSE], b.ttl) EXCEPT !.items = a.items \cap b.items]

\* a.difference(b): a fresh mutable value
difference(a, b) == [a EXCEPT !.imm = FALSE, !.items = a.items \ b.items]

\* a == b on record sets: same class, type, covers and members (TTL is not compared)
RdsEq(a, b) == a.sel = b.sel /\ a.items = b.items

\* dns.rdataset.from_rdata(ttl, rdata): a one-member mutable set
from_rdata(ttl, rd) == union_update(Rdataset(RdataSel(rd), ttl),
                                    [sel |-> RdataSel(rd), ttl |-> ttl, items |-> {rd}])

\* len(rdataset), and the truth value of a record set (false when empty)
RdsLen(rds) == Cardinality(rds.items)
Truthy(rds) == rds # None /\ rds.items # {}

-----------------------------------------------------------------------------
(* Backend (the low level API), an in-memory store                          *)

EmptyStore == [k \in Keys |-> None]

\* nothing is stored under a selector the store has no entry for
_get_rdataset(st, name, sel) ==
    IF <<name, sel>> \in Keys THEN st[<<name, sel>>] ELSE None

\* the backend keeps the value it is given, as an immutable copy when it
\* is a backend of immutable values
_put_rdataset(st, imst, name, rds) ==
    [st EXCEPT ![<<name, rds.sel>>] = IF imst THEN ImmutableRdataset(rds) ELSE rds]

_delete_rdataset(st, name, sel) == [st EXCEPT ![<<name, sel>>] = None]

_delete_name(st, name) == [k \in Keys |-> IF k[1] = name THEN None ELSE st[k]]

_name_exists(st, name) == \E sel \in Sels : st[<<name, sel>>] # None

-----------------------------------------------------------------------------
(* Call arguments: values tagged with their runtime type                    *)

ArgName(n) == [kind |-> "Name", name |-> n]
ArgStr(t) == [kind |-> "str", text |-> t]
ArgInt(v) == [kind |-> "int", val |-> v]
ArgRdata(rd) == [kind |-> "Rdata", rd |-> rd]
ArgOther == [kind |-> "other"]
ArgRdataset(sel, ttl, items) == [Rdataset(sel, ttl) EXCEPT !.items = items]
ArgRRset(n, sel, ttl, items) ==
    [kind |-> "RRset", name |-> n, sel |-> sel, ttl |-> ttl, items |-> items,
     imm |-> FALSE]

\* isinstance(arg, dns.rdataset.Rdataset): an RRset is an Rdataset too
IsRdataset(arg) == arg.kind \in {"Rdataset", "RRset"}

\* the outcome of a call or of a part of one: the error raised (or NoError),
\* the store it leaves and the backend operations it invoked, in order
Outcome(err, st, calls) == [err |-> err, store |-> st, calls |-> calls]

-----------------------------------------------------------------------------
(* Helper methods *)

_check_read_only(ro) == IF ro THEN "ReadOnly" ELSE NoError

_raise_if_not_empty(args) == IF Len(args) # 0 THEN "TypeError" ELSE NoError

\* the record set the arguments describe, with the arguments left over
_rdataset_from_args(deleting, args) ==
    LET Ok(rds, rest) == [err |-> NoError, rdataset |-> rds, args |-> rest]
        Raise(e) == [err |-> e, rdataset |-> None, args |-> args]
        FromRdata(ttl, a, rest) ==
            IF a.kind = "Rdata" THEN Ok(from_rdata(ttl, a.rd), rest)
            ELSE Raise("TypeError")
    IN  IF Len(args) = 0
        THEN IF deleting THEN Ok(None, args) ELSE Raise("TypeError")
        ELSE LET arg == Head(args)
                 rest == Tail(args)
             IN  IF IsRdataset(arg) THEN Ok(arg, rest)
                 ELSE IF deleting THEN FromRdata(0, arg, rest)
                 ELSE IF arg.kind = "int"
                      THEN IF arg.val > MAX_TTL THEN Raise("ValueError")
                           ELSE IF Len(rest) = 0 THEN Raise("TypeError")
                           ELSE FromRdata(arg.val, Head(rest), Tail(rest))
                      ELSE Raise("TypeError")

\* str arguments in the name position are parsed into names
NameArg(arg) == IF arg.kind = "str" THEN ArgName(from_text(arg.text)) ELSE arg

\* a replace that checks the existing record set and merges like an add
_add_write_merging(replace, name, rdataset, st, imst) ==
    LET existing == _get_rdataset(st, name, rdataset.sel)
    IN  Outcome(NoError,
                _put_rdataset(st, imst, name,
                              IF existing # None THEN union(existing, rdataset)
                              ELSE rdataset),
                <<"_get_rdataset", "_put_rdataset">>)

\* an add that loses the existing record set when it copies an immutable one
_add_write_lossy(replace, name, rdataset, st, imst) ==
    LET existing == _get_rdataset(st, name, rdataset.sel)
        trds == IF existing # None /\ existing.imm
                THEN Rdataset(existing.sel, 0)
                ELSE existing
    IN  IF ~replace
        THEN Outcome(NoError,
                     _put_rdataset(st, imst, name,
                                   IF existing # None THEN union(trds, rdataset)
                                   ELSE rdataset),
                     <<"_get_rdataset", "_put_rdataset">>)
        ELSE Outcome(NoError, _put_rdataset(st, imst, name, rdataset),
                     <<"_put_rdataset">>)

\* an add that merges the new members into the object it read
_add_objects_in_place(replace, name, rdataset, st) ==
    LET existing == IF replace THEN None ELSE _get_rdataset(st, name, rdataset.sel)
        merged == IF existing # None
                  THEN union_update([existing EXCEPT !.imm = FALSE], rdataset)
                  ELSE rdataset
    IN  [existing |-> IF existing # None /\ ~existing.imm THEN merged ELSE existing,
         argument |-> rdataset,
         put |-> merged,
         fresh |-> FALSE]

\* the objects the second half of _add works on, as they are when it ends:
\* existing is the object read from the backend (None when nothing is read),
\* argument the caller's record set, put the object handed to _put_rdataset,
\* and fresh tells whether put is an object made here (the result of union)
\* rather than the argument itself.  An immutable existing is copied into
\* the new Rdataset trds; union clones its left operand
_add_objects(replace, name, rdataset, st) ==
    LET existing == IF replace THEN None ELSE _get_rdataset(st, name, rdataset.sel)
        trds == IF existing # None /\ existing.imm
                THEN union_update(Rdataset(existing.sel, 0), existing)
                ELSE existing
        merged == IF existing # None THEN union(trds, rdataset) ELSE rdataset
    IN  [existing |-> existing,
         argument |-> rdataset,
         put |-> merged,
         fresh |-> existing # None]

\* the second half of _add: merge with what exists unless replacing, then put
_add_write(replace, name, rdataset, st, imst) ==
    Outcome(NoError,
            _put_rdataset(st, imst, name, _add_objects(replace, name, rdataset, st).put),
            IF ~replace THEN <<"_get_rdataset", "_put_rdataset">>
            ELSE <<"_put_rdataset">>)

_add(replace, args, st, imst) ==
    IF Len(args) = 0 THEN Outcome("TypeError", st, <<>>)
    ELSE
    LET arg == NameArg(Head(args))
        r == IF arg.kind = "Name"
             THEN [_rdataset_from_args(FALSE, Tail(args)) EXCEPT !.args = <<arg.name, @>>]
             ELSE IF arg.kind = "RRset"
             THEN [err |-> NoError,
                   rdataset |-> union_update(Rdataset(arg.sel, arg.ttl), arg),
                   args |-> <<arg.name, Tail(args)>>]
             ELSE [err |-> "TypeError", rdataset |-> None, args |-> <<>>]
    IN  IF r.err # NoError THEN Outcome(r.err, st, <<>>)
        ELSE IF _raise_if_not_empty(r.args[2]) # NoError
        THEN Outcome(_raise_if_not_empty(r.args[2]), st, <<>>)
        ELSE
        _add_write(replace, r.args[1], r.rdataset, st, imst)

\* RdataClass.make / RdataType.make of an argument: the code of an int
make(arg) == IF arg.kind = "int" THEN [err |-> NoError, val |-> arg.val]
             ELSE [err |-> "ValueError", val |-> 0]

\* delete by class and type: name, rdclass, rdtype, [covers]
_delete_selector(exact, name, args, st) ==
    IF Len(args) < 2 THEN Outcome("TypeError", st, <<>>)
    ELSE
    LET rdclass == make(args[1])
        rdtype == make(args[2])
        covers == IF Len(args) > 2 THEN make(args[3])
                  ELSE [err |-> NoError, val |-> NONE]
        rest == IF Len(args) > 2 THEN SubSeq(args, 4, Len(args)) ELSE <<>>
        sel == <<rdclass.val, rdtype.val, covers.val>>
    IN  IF rdclass.err # NoError THEN Outcome(rdclass.err, st, <<>>)
        ELSE IF rdtype.err # NoError THEN Outcome(rdtype.err, st, <<>>)
        ELSE IF covers.err # NoError THEN Outcome(covers.err, st, <<>>)
        ELSE IF _raise_if_not_empty(rest) # NoError
        THEN Outcome(_raise_if_not_empty(rest), st, <<>>)
        ELSE IF _get_rdataset(st, name, sel) = None
        THEN Outcome(IF exact THEN "DeleteNotExact" ELSE NoError, st,
                     <<"_get_rdataset">>)
        ELSE Outcome(NoError, _delete_rdataset(st, name, sel),
                     <<"_get_rdataset", "_delete_rdataset">>)

\* a delete that writes back an empty remainder
_delete_existing_put_empty(exact, name, rdataset, existing, st, imst) ==
    IF exact /\ ~RdsEq(intersection(existing, rdataset), rdataset)
    THEN Outcome("DeleteNotExact", st, <<"_get_rdataset">>)
    ELSE Outcome(NoError, _put_rdataset(st, imst, name, difference(existing, rdataset)),
                 <<"_get_rdataset", "_put_rdataset">>)

\* an exact delete that removes what it can before it finds a member missing
_delete_existing_writes_first(exact, name, rdataset, existing, st, imst) ==
    LET remainder == difference(existing, rdataset)
        written == IF RdsLen(remainder) = 0
                   THEN Outcome(NoError, _delete_rdataset(st, name, remainder.sel),
                                <<"_get_rdataset", "_delete_rdataset">>)
                   ELSE Outcome(NoError, _put_rdataset(st, imst, name, remainder),
                                <<"_get_rdataset", "_put_rdataset">>)
    IN  IF exact /\ ~RdsEq(intersection(existing, rdataset), rdataset)
        THEN Outcome("DeleteNotExact", written.store, written.calls)
        ELSE written

\* delete of a record set from the existing one
_delete_existing(exact, name, rdataset, existing, st, imst) ==
    IF exact /\ ~RdsEq(intersection(existing, rdataset), rdataset)
    THEN Outcome("DeleteNotExact", st, <<"_get_rdataset">>)
    ELSE LET remainder == difference(existing, rdataset)
         IN  IF RdsLen(remainder) = 0
             THEN Outcome(NoError, _delete_rdataset(st, name, remainder.sel),
                          <<"_get_rdataset", "_delete_rdataset">>)
             ELSE Outcome(NoError, _put_rdataset(st, imst, name, remainder),
                          <<"_get_rdataset", "_put_rdataset">>)

\* an exact delete of a name that deletes before it checks
_delete_whole_name_unchecked(exact, name, st) ==
    IF exact /\ ~_name_exists(st, name)
    THEN Outcome("DeleteNotExact", _delete_name(st, name),
                 <<"_delete_name", "_name_exists">>)
    ELSE Outcome(NoError, _delete_name(st, name),
                 IF exact THEN <<"_delete_name", "_name_exists">>
                 ELSE <<"_delete_name">>)

\* delete of everything at the name
_delete_whole_name(exact, name, st) ==
    IF exact /\ ~_name_exists(st, name)
    THEN Outcome("DeleteNotExact", st, <<"_name_exists">>)
    ELSE Outcome(NoError, _delete_name(st, name),
                 IF exact THEN <<"_name_exists", "_delete_name">>
                 ELSE <<"_delete_name">>)

\* delete of a record set, or of the whole name when the record set is
\* None or has no members
_delete_rdatas(exact, name, rdataset, st, imst) ==
    IF Truthy(rdataset)
    THEN LET existing == _get_rdataset(st, name, rdataset.sel)
         IN  IF existing # None
             THEN _delete_existing(exact, name, rdataset, existing, st, imst)
             ELSE Outcome(IF exact THEN "DeleteNotExact" ELSE NoError, st,
                          <<"_get_rdataset">>)
    ELSE _delete_whole_name(exact, name, st)

_delete(exact, args, st, imst) ==
    IF Len(args) = 0 THEN Outcome("TypeError", st, <<>>)
    ELSE
    LET arg == NameArg(Head(args))
        rest == Tail(args)
    IN  IF arg.kind = "Name"
        THEN IF Len(rest) > 0 /\ rest[1].kind = "int"
             THEN _delete_selector(exact, arg.name, rest, st)
             ELSE LET r == _rdataset_from_args(TRUE, rest)
                  IN  IF r.err # NoError THEN Outcome(r.err, st, <<>>)
                      ELSE IF _raise_if_not_empty(r.args) # NoError
                      THEN Outcome(_raise_if_not_empty(r.args), st, <<>>)
                      ELSE _delete_rdatas(exact, arg.name, r.rdataset, st, imst)
        ELSE IF arg.kind = "RRset"
        THEN IF _raise_if_not_empty(rest) # NoError
             THEN Outcome(_raise_if_not_empty(rest), st, <<>>)
             ELSE _delete_rdatas(exact, arg.name, arg, st, imst)
        ELSE Outcome("TypeError", st, <<>>)

-----------------------------------------------------------------------------
(* The high level API *)

\* a get that answers from what the backend held before the last call
get_cached(st, name, sel) ==
    LET rdataset == _get_rdataset(prev, NameArg(name).name, sel)
    IN  IF rdataset # None /\ ~rdataset.imm THEN ImmutableRdataset(rdataset)
        ELSE rdataset

\* get(name, rdclass, rdtype, covers): the value returned
get(st, name, sel) ==
    LET rdataset == _get_rdataset(st, NameArg(name).name, sel)
    IN  IF rdataset # None /\ ~rdataset.imm THEN ImmutableRdataset(rdataset)
        ELSE rdataset

\* is the object get returns the very object _get_rdataset handed out?  It is
\* wrapped in a new ImmutableRdataset only when it is not one already
get_returns_backend_object(st, name, sel) ==
    LET rdataset == _get_rdataset(st, NameArg(name).name, sel)
    IN  rdataset # None /\ rdataset.imm

\* an add that looks at its arguments before it checks read_only
add_checks_late(ro, args, st, imst) ==
    LET r == _add(FALSE, args, st, imst)
    IN  IF r.err # NoError THEN Outcome(r.err, st, r.calls)
        ELSE IF ro THEN Outcome("ReadOnly", st, r.calls)
        ELSE r

add(ro, args, st, imst) ==
    IF _check_read_only(ro) # NoError THEN Outcome(_check_read_only(ro), st, <<>>)
    ELSE _add(FALSE, args, st, imst)

replace(ro, args, st, imst) ==
    IF _check_read_only(ro) # NoError THEN Outcome(_check_read_only(ro), st, <<>>)
    ELSE _add(TRUE, args, st, imst)

delete(ro, args, st, imst) ==
    IF _check_read_only(ro) # NoError THEN Outcome(_check_read_only(ro), st, <<>>)
    ELSE _delete(FALSE, args, st, imst)

delete_exact(ro, args, st, imst) ==
    IF _check_read_only(ro) # NoError THEN Outcome(_check_read_only(ro), st, <<>>)
    ELSE _delete(TRUE, args, st, imst)

name_exists(st, name) == _name_exists(st, NameArg(name).name)

\* a set_serial that stores the computed serial whatever its size
set_serial_no_wrap(ro, increment, value, name, rdclass, first, st, imst) ==
    LET nm == NameArg(name).name
        rdataset == _get_rdataset(st, nm, <<rdclass, SOA, NONE>>)
    IN  IF rdataset = None \/ RdsLen(rdataset) = 0
        THEN Outcome("KeyError", st, <<"_get_rdataset">>)
        ELSE LET base == IF value # None THEN value.val ELSE first.data
                 serial == base + increment
                 rdata == [first EXCEPT !.data = serial]
                 new_rdataset == from_rdata(rdataset.ttl, rdata)
                 r == replace(ro, <<ArgName(nm), new_rdataset>>, st, imst)
             IN  Outcome(r.err, r.store, <<"_get_rdataset">> \o r.calls)

\* first is rdataset[0], the member the record set lists first
set_serial(ro, increment, value, name, rdclass, first, st, imst) ==
    LET nm == NameArg(name).name
        rdataset == _get_rdataset(st, nm, <<rdclass, SOA, NONE>>)
    IN  IF rdataset = None \/ RdsLen(rdataset) = 0
        THEN Outcome("KeyError", st, <<"_get_rdataset">>)
        ELSE LET base == IF value # None THEN value.val ELSE first.data
                 sum == base + increment
                 serial == IF sum > MAX_SERIAL \/ sum < 1 THEN 1 ELSE sum
                 rdata == [first EXCEPT !.data = serial]
                 new_rdataset == from_rdata(rdataset.ttl, rdata)
                 r == replace(ro, <<ArgName(nm), new_rdataset>>, st, imst)
             IN  Outcome(r.err, r.store, <<"_get_rdataset">> \o r.calls)

-----------------------------------------------------------------------------
(* The calls a caller makes *)

RdsArgs == {ArgRdataset(SelA, 300, items) : items \in SUBSET RdataA}
           \cup {ArgRdataset(SelSOA, 300, {rd}) : rd \in RdataSOA}
           \cup {ArgRdataset(SelSOA, 300, {})}

RRsetArgs == {ArgRRset(n, SelA, 300, items) : n \in Names,
                                              items \in {{}, RdataA}}

\* the forms add, replace, delete and delete_exact all accept
CommonForms ==
    {<<ArgName(n), rds>> : n \in Names, rds \in RdsArgs}
    \cup {<<ArgStr(t), rds>> : t \in Texts, rds \in {ArgRdataset(SelA, 300, RdataA)}}
    \cup {<<rr>> : rr \in RRsetArgs}

\* name, ttl, rdata
AddForms ==
    {<<ArgName(n), ArgInt(60), ArgRdata(rd)>> : n \in Names, rd \in RdataA}

\* name, rdata; name, rdclass, rdtype, [covers]; name
DeleteForms ==
    {<<ArgName(n), ArgRdata(rd)>> : n \in Names, rd \in RdataA}
    \cup {<<ArgName(n), ArgInt(sel[1]), ArgInt(sel[2])>> : n \in Names, sel \in Sels}
    \cup {<<ArgName(<<"a">>), ArgInt(ClassIN), ArgInt(SOA), ArgInt(NONE)>>}
    \cup {<<ArgName(n)>> : n \in Names}

Malformed ==
    LET n == ArgName(<<"a">>)
        rd == ArgRdata(CHOOSE r \in RdataA : r.data = 1)
        rds == ArgRdataset(SelA, 300, RdataA)
    IN  {<<>>, <<ArgOther>>, <<ArgInt(60)>>,
         <<n, ArgOther>>, <<n, rds, ArgOther>>,
         <<n, ArgInt(60)>>, <<n, ArgInt(60), ArgOther>>,
         <<n, ArgInt(MAX_TTL + 1), rd>>, <<n, ArgInt(60), rd, ArgOther>>,
         <<n, ArgInt(ClassIN), ArgOther>>,
         <<n, ArgInt(ClassIN), ArgInt(SOA), ArgInt(NONE), ArgOther>>,
         <<ArgRRset(<<"a">>, SelA, 300, RdataA), ArgOther>>}

AddArgLists == CommonForms \cup AddForms \cup Malformed
                 \cup {<<ArgName(<<"a">>)>>, <<ArgName(<<"a">>), ArgInt(ClassIN), ArgInt(SOA)>>}

DeleteArgLists == CommonForms \cup DeleteForms \cup Malformed

NoCall == [op |-> "none", args |-> <<>>, err |-> NoError, calls |-> <<>>, ret |-> None]

Call(op, args, r, ret) ==
    [op |-> op, args |-> args, err |-> r.err, calls |-> r.calls, ret |-> ret]

NoExit == [exc |-> NoError, ends |-> <<>>, endErr |-> NoError, propagated |-> NoError]

\* no backend operation of the last call raised
NoFault == [at |-> 0, err |-> NoError]

\* no object of an immutable class is under observation
NoObject == [kind |-> "None"]

\* the content of a zone before the transaction: an SOA and an address
\* under one name, two addresses under the other
ZoneContent(imst) ==
    LET Stored(sel, items) ==
            [ArgRdataset(sel, 300, items) EXCEPT !.imm = imst]
    IN  [k \in Keys |->
            IF k = <<<<"a">>, SelSOA>>
            THEN Stored(SelSOA, {rd \in RdataSOA : rd.data = 10})
            ELSE IF k = <<<<"a">>, SelA>>
            THEN Stored(SelA, {rd \in RdataA : rd.data = 1})
            ELSE IF k = <<<<"b">>, SelA>> THEN Stored(SelA, RdataA)
            ELSE None]

\* a replacement transaction starts from no content, any other from the
\* content of the zone
Init ==
    /\ read_only \in BOOLEAN
    /\ replacement \in BOOLEAN
    /\ immutableStore \in BOOLEAN
    /\ store = IF replacement THEN EmptyStore ELSE ZoneContent(immutableStore)
    /\ prev = store
    /\ last = NoCall
    /\ ncalls = 0
    /\ depth = 0
    /\ endCalls = <<>>
    /\ lastExit = NoExit
    /\ fault = NoFault
    /\ obj = NoObject

Flags == <<read_only, replacement, immutableStore>>
Life == <<depth, endCalls, lastExit>>

\* a high level call with outcome r
Do(op, args, r, ret) ==
    /\ ncalls < MaxCalls
    /\ ncalls' = ncalls + 1
    /\ store' = r.store
    /\ prev' = store
    /\ last' = Call(op, args, r, ret)
    /\ fault' = NoFault
    /\ UNCHANGED <<Flags, Life, obj>>

Get ==
    \E n \in {ArgName(m) : m \in Names} \cup {ArgStr(t) : t \in Texts}, sel \in Sels :
        Do("get", <<n, ArgInt(sel[1]), ArgInt(sel[2]), ArgInt(sel[3])>>,
           Outcome(NoError, store, <<"_get_rdataset">>), get(store, n, sel))

Add == \E args \in AddArgLists :
    Do("add", args, add(read_only, args, store, immutableStore), None)

Replace == \E args \in AddArgLists :
    Do("replace", args, replace(read_only, args, store, immutableStore), None)

Delete == \E args \in DeleteArgLists :
    Do("delete", args, delete(read_only, args, store, immutableStore), None)

DeleteExact == \E args \in DeleteArgLists :
    Do("delete_exact", args, delete_exact(read_only, args, store, immutableStore), None)

NameExists ==
    \E n \in {ArgName(m) : m \in Names} \cup {ArgStr(t) : t \in Texts} :
        Do("name_exists", <<n>>, Outcome(NoError, store, <<"_name_exists">>),
           [kind |-> "bool", val |-> name_exists(store, n)])

\* __iter__: whatever the backend's _iterate_rdatasets yields, the (name,
\* record set) pairs of the store
__iter__(st) ==
    [kind |-> "iterator",
     items |-> {<<k[1], st[k]>> : k \in {j \in Keys : st[j] # None}}]

Iter == Do("__iter__", <<>>, Outcome(NoError, store, <<"_iterate_rdatasets">>),
           __iter__(store))

Increments == {-20, 0, 1}
Values == {None, ArgInt(0), ArgInt(5), ArgInt(MAX_SERIAL)}

SetSerial ==
    \E increment \in Increments, value \in Values, n \in Names :
        LET soa == _get_rdataset(store, n, SelSOA)
        IN  \E first \in IF soa # None /\ soa.items # {} THEN soa.items ELSE {None} :
                Do("set_serial", <<ArgInt(increment), value, ArgName(n)>>,
                   set_serial(read_only, increment, value, ArgName(n), ClassIN,
                              first, store, immutableStore),
                   None)

\* an __exit__ that commits whatever happened in the block
exit_always_commits(exc_type, endErr) ==
    [exc |-> exc_type,
     ends |-> <<TRUE>>,
     endErr |-> endErr,
     propagated |-> IF endErr # NoError THEN endErr ELSE exc_type]

\* __exit__(exc_type, ...): _end_transaction(True) when no error left the
\* block, else _end_transaction(False); endErr is what _end_transaction
\* raised (NoError when it returned); __exit__ returns False, so the error that
\* left the block is raised again unless _end_transaction raised its own
__exit__(exc_type, endErr) ==
    [exc |-> exc_type,
     ends |-> IF exc_type = NoError THEN <<TRUE>> ELSE <<FALSE>>,
     endErr |-> endErr,
     propagated |-> IF endErr # NoError THEN endErr ELSE exc_type]

\* __enter__: the transaction itself is returned
Enter ==
    /\ ncalls < MaxCalls
    /\ ncalls' = ncalls + 1
    /\ depth' = depth + 1
    /\ UNCHANGED <<Flags, store, prev, last, endCalls, lastExit, fault, obj>>

\* the block is left normally, or by the error of its last call or by an
\* error of the caller's own code; the backend's _end_transaction returns or
\* raises
Exit ==
    \E exc \in {NoError, "UserError", last.err}, endErr \in {NoError, "BackendError"} :
        /\ depth > 0
        /\ depth' = depth - 1
        /\ endCalls' = endCalls \o __exit__(exc, endErr).ends
        /\ lastExit' = __exit__(exc, endErr)
        /\ UNCHANGED <<Flags, store, prev, last, ncalls, fault, obj>>

Next ==
    \/ Get
    \/ Add
    \/ Replace
    \/ Delete
    \/ DeleteExact
    \/ NameExists
    \/ SetSerial
    \/ Iter
    \/ Enter
    \/ Exit

Spec == Init /\ [][Next]_vars

-----------------------------------------------------------------------------
(* Backend operations that raise *)

\* what a backend operation may raise: an error of the backend's own, or an
\* IndexError (say, from a sequence the backend indexes)
BackendErrors == {"BackendError", "IndexError"}

\* the outcome of _add or _delete when the f-th backend operation of the run
\* with outcome r raises e: the operations before it are reads, the operation
\* that raises changes nothing, and nothing is invoked after it; the whole
\* body of _add and of _delete is inside 'try: ... except IndexError: raise
\* TypeError(...)', and no other handler is in the way
backend_raises(r, f, e, st) ==
    Outcome(IF e = "IndexError" THEN "TypeError" ELSE e, st, SubSeq(r.calls, 1, f))

\* a high level call whose f-th backend operation raises e
DoBackendError(op, args, r, f, e) ==
    /\ ncalls < MaxCalls
    /\ ncalls' = ncalls + 1
    /\ \E raised \in {backend_raises(r, f, e, store)} :
          /\ store' = raised.store
          /\ last' = Call(op, args, raised, None)
    /\ prev' = store
    /\ fault' = [at |-> f, err |-> e]
    /\ UNCHANGED <<Flags, Life, obj>>

AddBackendError == \E args \in AddArgLists, e \in BackendErrors :
    \E r \in {add(read_only, args, store, immutableStore)} :
        \E f \in 1..Len(r.calls) : DoBackendError("add", args, r, f, e)

ReplaceBackendError == \E args \in AddArgLists, e \in BackendErrors :
    \E r \in {replace(read_only, args, store, immutableStore)} :
        \E f \in 1..Len(r.calls) : DoBackendError("replace", args, r, f, e)

DeleteBackendError == \E args \in DeleteArgLists, e \in BackendErrors :
    \E r \in {delete(read_only, args, store, immutableStore)} :
        \E f \in 1..Len(r.calls) : DoBackendError("delete", args, r, f, e)

DeleteExactBackendError == \E args \in DeleteArgLists, e \in BackendErrors :
    \E r \in {delete_exact(read_only, args, store, immutableStore)} :
        \E f \in 1..Len(r.calls) : DoBackendError("delete_exact", args, r, f, e)

\* the mutating calls against a backend whose operations may raise
BackendErrorNext ==
    \/ Add
    \/ Replace
    \/ Delete
    \/ DeleteExact
    \/ AddBackendError
    \/ ReplaceBackendError
    \/ DeleteBackendError
    \/ DeleteExactBackendError

\* the mutating calls of a read-only transaction invoke no backend operation,
\* so none can raise: the transactions here are the writable ones
BackendErrorInit == Init /\ ~read_only

BackendErrorSpec == BackendErrorInit /\ [][BackendErrorNext]_vars

-----------------------------------------------------------------------------
(* dns._immutable_attr: objects of classes decorated with @immutable.  An    *)
(* object is [cls, truth, immutable_init, frames, entered, closes, phase,    *)
(* error, attempt]: immutable_init is its attribute _immutable_init          *)
(* ("absent" or "self"), frames the values of 'previous' in the decorated    *)
(* constructors now running, entered the number of decorated constructors    *)
(* called so far, closes the times the attribute was removed, error the      *)
(* error leaving the constructor that ended last, attempt the last attribute *)
(* assignment or deletion tried.                                             *)

MaxNesting == 3

\* a class that follows no protocol: _Immutable is not among its ancestors and
\* none of the constructors in its chain is decorated
PlainClass == [mixin |-> FALSE, decorated |-> 0]

\* immutable(cls): with _Immutable among the ancestors the constructor of
\* cls is decorated; else a subclass of _Immutable and cls is made whose
\* constructor is decorated and calls the constructor of cls
immutable(cls) ==
    IF cls.mixin THEN [cls EXCEPT !.decorated = @ + 1]
    ELSE [mixin |-> TRUE, decorated |-> cls.decorated + 1]

RECURSIVE Decorated(_)
\* a chain of n classes, each decorated and derived from the one before
Decorated(n) == IF n = 0 THEN PlainClass ELSE immutable(Decorated(n - 1))

Classes == {Decorated(n) : n \in 1..MaxNesting}

NoAttempt == [op |-> "none", during |-> FALSE, err |-> NoError]

NewObject(cls, truth) ==
    [kind |-> "object", cls |-> cls, truth |-> truth, immutable_init |-> "absent",
     frames |-> <<>>, entered |-> 0, closes |-> 0, phase |-> "new", error |-> NoError,
     attempt |-> NoAttempt]

\* _Immutable.__setattr__: refused unless the object has _immutable_init and
\* it is the object itself
__setattr__(o) ==
    IF o.immutable_init = "absent" \/ o.immutable_init # "self"
    THEN "TypeError" ELSE NoError

\* _Immutable.__delattr__: the same test
__delattr__(o) ==
    IF o.immutable_init = "absent" \/ o.immutable_init # "self"
    THEN "TypeError" ELSE NoError

\* nf, up to the call of the constructor: previous is the attribute if the
\* object has it; if not, previous is None and the attribute is set
nf_try(o) ==
    IF o.immutable_init # "absent"
    THEN [o EXCEPT !.frames = Append(@, o.immutable_init), !.entered = @ + 1]
    ELSE [o EXCEPT !.frames = Append(@, "None"), !.immutable_init = "self",
                   !.entered = @ + 1]

\* an nf that tests 'previous is None' in its finally clause
nf_finally_is_none(o, exc) ==
    LET previous == o.frames[Len(o.frames)]
        left == [o EXCEPT !.frames = SubSeq(@, 1, Len(@) - 1)]
    IN  IF previous = "None"
        THEN IF o.immutable_init = "absent"
             THEN [left EXCEPT !.error = "AttributeError"]
             ELSE [left EXCEPT !.immutable_init = "absent", !.closes = @ + 1,
                               !.error = exc]
        ELSE [left EXCEPT !.error = exc]

\* nf, the finally clause, the constructor having returned (exc = NoError) or
\* raised exc: 'if not previous' is true when previous is None and also when
\* previous is the object and the object is false; object.__delattr__ then
\* removes the attribute, and raises AttributeError when it is not there
nf_finally(o, exc) ==
    LET previous == o.frames[Len(o.frames)]
        not_previous == previous = "None" \/ ~o.truth
        left == [o EXCEPT !.frames = SubSeq(@, 1, Len(@) - 1)]
    IN  IF not_previous
        THEN IF o.immutable_init = "absent"
             THEN [left EXCEPT !.error = "AttributeError"]
             ELSE [left EXCEPT !.immutable_init = "absent", !.closes = @ + 1,
                               !.error = exc]
        ELSE [left EXCEPT !.error = exc]

\* the transaction takes no part
Idle == UNCHANGED <<Flags, Life, store, prev, last, ncalls, fault>>

\* the outermost decorated constructor of a new object is called
Construct ==
    /\ obj.phase = "new"
    /\ obj' = [nf_try(obj) EXCEPT !.phase = "constructing"]
    /\ Idle

\* a decorated constructor calls the decorated constructor of its base
\* class, once at most
NestedConstruct ==
    /\ obj.phase = "constructing"
    /\ obj.error = NoError
    /\ Len(obj.frames) = obj.entered
    /\ obj.entered < obj.cls.decorated
    /\ obj' = nf_try(obj)
    /\ Idle

\* code inside or outside the constructors assigns an attribute; an
\* assignment that succeeds may change the truth value of the object
SetAttr ==
    /\ obj.phase # "new"
    /\ obj.error = NoError \/ obj.frames = <<>>
    /\ \E truth \in IF __setattr__(obj) = NoError THEN BOOLEAN ELSE {obj.truth} :
          obj' = [obj EXCEPT !.truth = truth,
                             !.attempt = [op |-> "setattr",
                                          during |-> obj.frames # <<>>,
                                          err |-> __setattr__(obj)]]
    /\ Idle

\* the same for the deletion of an attribute
DelAttr ==
    /\ obj.phase # "new"
    /\ obj.error = NoError \/ obj.frames = <<>>
    /\ \E truth \in IF __delattr__(obj) = NoError THEN BOOLEAN ELSE {obj.truth} :
          obj' = [obj EXCEPT !.truth = truth,
                             !.attempt = [op |-> "delattr",
                                          during |-> obj.frames # <<>>,
                                          err |-> __delattr__(obj)]]
    /\ Idle

\* the phase of an object a constructor of which has just ended
Ended(o) ==
    IF o.frames # <<>> THEN o
    ELSE [o EXCEPT !.phase = IF o.error = NoError THEN "constructed" ELSE "failed"]

\* the innermost running constructor returns
InitReturns ==
    /\ obj.phase = "constructing"
    /\ obj.error = NoError
    /\ obj' = Ended(nf_finally(obj, NoError))
    /\ Idle

\* the innermost running constructor raises, or the error that left the
\* constructor it called leaves it too
InitRaises ==
    /\ obj.phase = "constructing"
    /\ obj' = Ended(nf_finally(obj, IF obj.error # NoError THEN obj.error
                                    ELSE "InitError"))
    /\ Idle

ImmutableInit ==
    /\ read_only = FALSE
    /\ replacement = TRUE
    /\ immutableStore = TRUE
    /\ store = EmptyStore
    /\ prev = store
    /\ last = NoCall
    /\ ncalls = 0
    /\ depth = 0
    /\ endCalls = <<>>
    /\ lastExit = NoExit
    /\ fault = NoFault
    /\ obj \in {NewObject(cls, truth) : cls \in Classes, truth \in BOOLEAN}

ImmutableNext ==
    \/ Construct
    \/ NestedConstruct
    \/ SetAttr
    \/ DelAttr
    \/ InitReturns
    \/ InitRaises

ImmutableSpec == ImmutableInit /\ [][ImmutableNext]_vars

-----------------------------------------------------------------------------
(* Vocabulary of the properties: the last call's target and record set     *)

MutatingOps == {"add", "replace", "delete", "delete_exact"}

Succeeded(op) == last.op = op /\ last.err = NoError

\* a record set as a plain value: class, type, covers, TTL and members
Plain(rds) == [Rdataset(rds.sel, rds.ttl) EXCEPT !.items = rds.items]

\* the call names a record set: rrset; name, rdataset; name, ttl, rdata;
\* name, rdata
RecordSetForm ==
    last.args \in CommonForms \cup (IF last.op \in {"add", "replace"}
                                    THEN AddForms
                                    ELSE {a \in DeleteForms :
                                            Len(a) = 2 /\ a[2].kind = "Rdata"})

\* the call names only a name
NameOnlyForm == Len(last.args) = 1 /\ last.args[1].kind \in {"Name", "str"}

\* the call names a name, a class and a type (and covers)
SelectorForm == last.args \in DeleteForms /\ Len(last.args) > 2

CallName ==
    IF last.args[1].kind = "str" THEN <<last.args[1].text>> ELSE last.args[1].name

\* the record set B the call names
CallB ==
    IF last.args[1].kind = "RRset" THEN Plain(last.args[1])
    ELSE IF last.args[2].kind = "Rdataset" THEN Plain(last.args[2])
    ELSE IF last.args[2].kind = "Rdata"
         THEN [Rdataset(RdataSel(last.args[2].rd), 0) EXCEPT !.items = {last.args[2].rd}]
    ELSE [Rdataset(RdataSel(last.args[3].rd), last.args[2].val)
            EXCEPT !.items = {last.args[3].rd}]

CallSel ==
    IF SelectorForm
    THEN <<last.args[2].val, last.args[3].val,
           IF Len(last.args) > 3 THEN last.args[4].val ELSE NONE>>
    ELSE CallB.sel

CallKey == <<CallName, CallSel>>

\* what was stored at the call's (name, selector) when the call began
CallA == prev[CallKey]

OthersUnchanged == \A k \in Keys : k # CallKey => store[k] = prev[k]

NameAbsent(st, n) == \A sel \in Sels : st[<<n, sel>>] = None

-----------------------------------------------------------------------------
(* Properties *)

\* C1: on a read-only transaction add, replace, delete and delete_exact fail
\* with ReadOnly whatever their arguments (a malformed call is not answered
\* with the error of its arguments), invoke no backend operation and leave
\* the store as it was
C1_ReadOnlyGuard ==
    (read_only /\ last.op \in MutatingOps)
        => /\ last.err = "ReadOnly"
           /\ last.calls = <<>>
           /\ store = prev

C1_Witness ==
    /\ read_only
    /\ last.op \in MutatingOps
    /\ last.args \in Malformed
    /\ last.err = "ReadOnly"

\* C2: on a read-only transaction every set_serial fails with ReadOnly and
\* invokes no backend operation
C2_SetSerialReadOnly ==
    (read_only /\ last.op = "set_serial")
        => /\ last.err = "ReadOnly"
           /\ last.calls = <<>>

\* C3 as stated: every exit of a scoped block invokes _end_transaction exactly
\* once, with commit=True exactly when no error left the block, and an error
\* that left the block is the one that reaches the caller, also when
\* _end_transaction fails
C3_ScopedExitAsStated ==
    (lastExit # NoExit)
        => /\ lastExit.ends = <<lastExit.exc = NoError>>
           /\ lastExit.exc # NoError => lastExit.propagated = lastExit.exc

\* C3 amended: every exit of a scoped block invokes _end_transaction exactly
\* once, with commit=True exactly when no error left the block; when
\* _end_transaction returns, the error that left the block (if any) reaches the
\* caller; when _end_transaction raises, its error reaches the caller instead
C3_ScopedExit ==
    (lastExit # NoExit)
        => /\ lastExit.ends = <<lastExit.exc = NoError>>
           /\ lastExit.endErr = NoError => lastExit.propagated = lastExit.exc
           /\ lastExit.endErr # NoError => lastExit.propagated = lastExit.endErr

C3_Witness ==
    /\ lastExit # NoExit
    /\ lastExit.exc \notin {NoError, "UserError"}
    /\ lastExit.exc = last.err
    /\ lastExit.ends = <<FALSE>>
    /\ lastExit.endErr # NoError

\* C4: _end_transaction is invoked at most once on one transaction object
C4_EndAtMostOnce == Len(endCalls) <= 1

\* C5: after a successful add of record set B at (name, selector), get of
\* that selector returns the union of what was stored there and B, or B when
\* nothing was stored there, and every other entry of the store is unchanged
C5_AddUnion ==
    (Succeeded("add") /\ RecordSetForm)
        => /\ get(store, ArgName(CallName), CallSel) =
                ImmutableRdataset(IF CallA # None THEN union(Plain(CallA), CallB)
                                  ELSE CallB)
           /\ OthersUnchanged

C5_Witness ==
    /\ Succeeded("add") /\ RecordSetForm
    /\ CallA # None
    /\ CallA.imm
    /\ CallA.items \ CallB.items # {}
    /\ CallB.items \ CallA.items # {}
    /\ \E k \in Keys : k # CallKey /\ prev[k] # None

\* C6: a delete of a non-empty record set B at (name, selector) succeeds
\* whether or not members of B are stored; it leaves the selector holding
\* what was stored minus B, or no entry (get returns None) when nothing
\* remains, and every other entry unchanged
C6_DeleteDifference ==
    (last.op = "delete" /\ ~read_only /\ RecordSetForm /\ CallB.items # {})
        => /\ last.err = NoError
           /\ get(store, ArgName(CallName), CallSel) =
                (IF CallA = None \/ CallA.items \ CallB.items = {} THEN None
                 ELSE ImmutableRdataset(difference(Plain(CallA), CallB)))
           /\ OthersUnchanged

C6_Witness ==
    /\ Succeeded("delete") /\ RecordSetForm
    /\ CallA # None
    /\ CallB.items \ CallA.items = {}
    /\ CallA.items \ CallB.items = {}
    /\ store[CallKey] = None

\* C7: a delete_exact of record set B fails with DeleteNotExact, leaving the
\* store as it was, whenever a member of B is not stored at (name, selector);
\* otherwise it succeeds and leaves the store that delete(B) leaves
C7_DeleteExact ==
    (last.op = "delete_exact" /\ ~read_only /\ RecordSetForm)
        => IF \E rd \in CallB.items : CallA = None \/ rd \notin CallA.items
           THEN last.err = "DeleteNotExact" /\ store = prev
           ELSE /\ last.err = NoError
                /\ store = delete(FALSE, last.args, prev, immutableStore).store

\* C7 for non-empty B (a companion of C7, which fails for an empty B only)
C7_DeleteExactNonEmpty ==
    (last.op = "delete_exact" /\ RecordSetForm /\ CallB.items # {}) => C7_DeleteExact

\* C8: after a successful replace of record set B at (name, selector) the
\* selector holds exactly B, whatever was stored there; the call reads
\* nothing from the backend and every other entry is unchanged
C8_ReplaceExact ==
    (Succeeded("replace") /\ RecordSetForm)
        => /\ get(store, ArgName(CallName), CallSel) = ImmutableRdataset(CallB)
           /\ last.calls = <<"_put_rdataset">>
           /\ OthersUnchanged

C8_Witness ==
    /\ Succeeded("replace") /\ RecordSetForm
    /\ CallA # None
    /\ CallA.items \ CallB.items # {}
    /\ CallB.items # {}
    /\ \E k \in Keys : k # CallKey /\ k[1] = CallName /\ prev[k] # None

\* C9: at a (name, selector) with nothing stored, in the selector form and in
\* the record set form, delete succeeds and delete_exact fails with
\* DeleteNotExact, and both leave the store as it was
C9_DeleteAbsent ==
    (last.op \in {"delete", "delete_exact"} /\ ~read_only
        /\ (SelectorForm \/ RecordSetForm) /\ CallKey \in Keys /\ CallA = None)
        => /\ store = prev
           /\ last.err = IF last.op = "delete" THEN NoError ELSE "DeleteNotExact"

\* C9 for the selector form and for every non-empty B (a companion of C9,
\* which fails for an empty B only)
C9_DeleteAbsentNonEmpty ==
    (SelectorForm \/ (RecordSetForm /\ CallB.items # {})) => C9_DeleteAbsent

\* C10: delete(name) removes every entry under the name and no other, and
\* succeeds also when the name does not exist; delete_exact(name) asks the
\* backend whether the name exists first: when it does not, the call fails
\* with DeleteNotExact without invoking _delete_name, and otherwise it does
\* what delete(name) does
C10_NameOnly ==
    (last.op \in {"delete", "delete_exact"} /\ ~read_only /\ NameOnlyForm)
        => IF last.op = "delete_exact" /\ NameAbsent(prev, CallName)
           THEN /\ last.err = "DeleteNotExact"
                /\ last.calls = <<"_name_exists">>
                /\ store = prev
           ELSE /\ last.err = NoError
                /\ last.calls = (IF last.op = "delete_exact"
                                 THEN <<"_name_exists", "_delete_name">>
                                 ELSE <<"_delete_name">>)
                /\ store = [k \in Keys |-> IF k[1] = CallName THEN None ELSE prev[k]]

C10_Witness ==
    /\ Succeeded("delete_exact") /\ NameOnlyForm
    /\ ~NameAbsent(prev, CallName)
    /\ NameAbsent(store, CallName)
    /\ \E k \in Keys : k[1] # CallName /\ store[k] # None

\* C11: only a call that names no record set at all deletes the name: a
\* delete or delete_exact whose record set is present but has no members
\* invokes no _delete_name and leaves every selector under the name as it was
C11_EmptyRecordSetKeepsName ==
    (last.op \in {"delete", "delete_exact"} /\ ~read_only
        /\ RecordSetForm /\ CallB.items = {})
        => /\ \A i \in 1..Len(last.calls) : last.calls[i] # "_delete_name"
           /\ \A sel \in Sels : store[<<CallName, sel>>] = prev[<<CallName, sel>>]

\* C11 for the calls that do name the whole name (a companion of C11): the
\* name-only form is the one that reaches _delete_name when the record set has
\* members or is absent
C11_NonEmptyKeepsName ==
    (last.op \in {"delete", "delete_exact"} /\ RecordSetForm /\ CallB.items # {})
        => \A i \in 1..Len(last.calls) : last.calls[i] # "_delete_name"

-----------------------------------------------------------------------------
(* Vocabulary of set_serial: set_serial(increment, value, name)             *)

SerialIncrement == last.args[1].val
SerialValue == last.args[2]
SerialKey == <<last.args[3].name, SelSOA>>

\* the SOA record set at the name when the call began
SerialSOA == prev[SerialKey]

\* the record set set_serial writes when it takes member first and serial s
SerialWritten(first, s) ==
    Plain(from_rdata(SerialSOA.ttl, [first EXCEPT !.data = s]))

\* C12: a successful set_serial stores value when value is given (the
\* increment is then not applied) and the current serial plus increment
\* otherwise, in a record set that differs from the member it took only in
\* the serial (stated for new serials inside the range of serials)
C12_SetSerialValue ==
    Succeeded("set_serial")
        => \E first \in SerialSOA.items :
              LET new == IF SerialValue # None THEN SerialValue.val
                         ELSE first.data + SerialIncrement
              IN  new \in 1..MAX_SERIAL
                    => Plain(store[SerialKey]) = SerialWritten(first, new)

\* C12 when no value is given (a companion of C12, which fails only when a
\* value is given together with an increment that is not zero)
C12_SetSerialIncrement ==
    (Succeeded("set_serial") /\ (SerialValue = None \/ SerialIncrement = 0))
        => C12_SetSerialValue

\* C13: a successful set_serial stores a serial in 1..MAX_SERIAL: the
\* computed serial (value, or the current serial, plus increment) when it
\* lies in that range, and 1 when it is above MAX_SERIAL or below 1; when the
\* SOA record set at the name is absent or empty the call fails with KeyError
\* and writes nothing
C13_SerialRange ==
    (last.op = "set_serial")
        => IF SerialSOA = None \/ SerialSOA.items = {}
           THEN /\ last.err = "KeyError"
                /\ last.calls = <<"_get_rdataset">>
                /\ store = prev
           ELSE last.err = NoError
                  => /\ \A rd \in store[SerialKey].items : rd.data \in 1..MAX_SERIAL
                     /\ \E first \in SerialSOA.items :
                          LET sum == (IF SerialValue # None THEN SerialValue.val
                                      ELSE first.data) + SerialIncrement
                          IN  Plain(store[SerialKey]) =
                                SerialWritten(first, IF sum > MAX_SERIAL \/ sum < 1
                                                     THEN 1 ELSE sum)

C13_Witness ==
    /\ Succeeded("set_serial")
    /\ SerialValue = None
    /\ SerialIncrement = 1
    /\ \E rd \in SerialSOA.items : rd.data = MAX_SERIAL
    /\ \A rd \in store[SerialKey].items : rd.data = 1

\* the absent and the empty SOA record set are both met
C13_EmptyWitness ==
    /\ last.op = "set_serial" /\ last.err = "KeyError"
    /\ SerialSOA # None

\* the backend operations that change the store
BackendWrites == {"_put_rdataset", "_delete_rdataset", "_delete_name"}

\* the errors add, replace, delete and delete_exact raise for their arguments
\* and for a delete that is not exact
ArgumentErrors == {"TypeError", "ValueError", "DeleteNotExact"}

\* C14: an add, replace, delete or delete_exact that fails for its arguments
\* (first argument neither name nor RRset, missing or extra arguments, a TTL
\* above MAX_TTL, a payload that is no rdata) or with DeleteNotExact has
\* invoked no backend write or delete, and the store is what it was before
C14_FailedCallWritesNothing ==
    (last.op \in MutatingOps /\ last.err \in ArgumentErrors)
        => /\ \A i \in 1..Len(last.calls) : last.calls[i] \notin BackendWrites
           /\ store = prev

\* a delete_exact of a record set of which one member is stored and one is not
C14_Witness ==
    /\ last.op = "delete_exact" /\ last.err = "DeleteNotExact"
    /\ RecordSetForm
    /\ CallA # None
    /\ CallA.items \cap CallB.items # {}
    /\ CallB.items \ CallA.items # {}
    /\ store = prev

\* every kind of argument error is met, after an earlier call changed the store
C14_ArgumentWitness ==
    /\ last.op \in {"add", "replace"} /\ last.err = "ValueError"
    /\ last.args \in Malformed
    /\ store # (IF replacement THEN EmptyStore ELSE ZoneContent(immutableStore))

\* no entry of the store is a record set without members
NoEmptyRecordSet(st) == \A k \in Keys : st[k] = None \/ st[k].items # {}

\* C15: the store starts without an empty record set, and after any sequence
\* of add, replace, delete, delete_exact and set_serial calls, in every
\* accepted argument form, no entry of the store is an empty record set
C15_NoEmptyRecordSet == NoEmptyRecordSet(store)

\* C15 for delete, delete_exact and set_serial, and for add and replace of a
\* record set with members (a companion of C15, which fails only for an add or
\* a replace of a record set without members)
C15_NoEmptyUnlessPut ==
    (NoEmptyRecordSet(prev)
        /\ (last.op \in {"add", "replace"} /\ RecordSetForm => CallB.items # {}))
        => NoEmptyRecordSet(store)

\* C16: when a backend operation raises during add, replace, delete or
\* delete_exact, the caller gets that same error, whatever its kind, and the
\* operation that raised is the last one the call invoked (it is not retried)
C16_BackendErrorUnchanged ==
    (last.op \in MutatingOps /\ fault # NoFault)
        => /\ last.err = fault.err
           /\ Len(last.calls) = fault.at

\* C16 for every error but IndexError (a companion of C16, which fails only
\* for an IndexError of the backend)
C16_OtherThanIndexError ==
    (fault # NoFault /\ fault.err # "IndexError") => C16_BackendErrorUnchanged

\* the selector a get names: get(name, rdclass, rdtype, covers)
GetSel == <<last.args[2].val, last.args[3].val, last.args[4].val>>

\* what the backend held at the (name, selector) of the get
GetStored == prev[<<CallName, GetSel>>]

\* C17: get of absent data returns None without raising; every other get
\* returns an immutable record set with the stored class, type, covers, TTL
\* and members that is a copy, not the object the backend handed out, whether
\* the backend stores mutable or immutable record sets, and leaves the store
\* as it was
C17_GetDetachedCopy ==
    (last.op = "get")
        => /\ last.err = NoError
           /\ store = prev
           /\ IF GetStored = None THEN last.ret = None
              ELSE /\ last.ret.imm
                   /\ Plain(last.ret) = Plain(GetStored)
                   /\ ~get_returns_backend_object(prev, last.args[1], GetSel)

\* C17 without the copy of a value that is immutable already (a companion of
\* C17, which fails only over a backend of immutable record sets): the result
\* is immutable and equal to what is stored, and a copy when what is stored
\* is mutable
C17_GetImmutable ==
    (last.op = "get")
        => /\ last.err = NoError
           /\ store = prev
           /\ IF GetStored = None THEN last.ret = None
              ELSE /\ last.ret.imm
                   /\ Plain(last.ret) = Plain(GetStored)
                   /\ ~GetStored.imm
                        => ~get_returns_backend_object(prev, last.args[1], GetSel)

ReadOps == {"get", "name_exists", "__iter__"}

\* has the call invoked the backend operation?
Invoked(operation) == \E i \in 1..Len(last.calls) : last.calls[i] = operation

\* C18: the transaction keeps no backend data between calls.  Every get
\* invokes _get_rdataset and returns what the store holds after all earlier
\* calls of the transaction; name_exists and iteration answer from that store
\* too; add, delete and delete_exact of a record set, delete by selector and
\* set_serial invoke _get_rdataset whenever they get as far as reading; and
\* get, name_exists and iteration invoke no put, no delete and no
\* _end_transaction, leaving the store as it was
C18_NoCaching ==
    /\ (last.op = "get")
          => /\ last.calls = <<"_get_rdataset">>
             /\ last.ret = (IF GetStored = None THEN None
                            ELSE [GetStored EXCEPT !.imm = TRUE])
    /\ (last.op = "name_exists")
          => /\ last.calls = <<"_name_exists">>
             /\ last.ret.val = ~NameAbsent(prev, CallName)
    /\ (last.op = "__iter__")
          => /\ last.calls = <<"_iterate_rdatasets">>
             /\ last.ret.items = {<<k[1], prev[k]>> : k \in {j \in Keys : prev[j] # None}}
    /\ (last.op \in ReadOps)
          => /\ \A w \in BackendWrites \cup {"_end_transaction"} : ~Invoked(w)
             /\ store = prev
    /\ (Succeeded("add") /\ RecordSetForm) => last.calls[1] = "_get_rdataset"
    /\ (last.op \in {"delete", "delete_exact"} /\ ~read_only
          /\ (SelectorForm \/ (RecordSetForm /\ CallB.items # {})))
          => last.calls[1] = "_get_rdataset"
    /\ (last.op = "set_serial") => last.calls[1] = "_get_rdataset"

\* a get that returns what an earlier call of the same transaction wrote: the
\* transaction replaces the zone, so it began with nothing stored
C18_Witness ==
    /\ replacement
    /\ last.op = "get"
    /\ last.ret # None
    /\ last.ret.items # {}
    /\ store = prev

C19_ImmutableWitness ==
    /\ Succeeded("add") /\ RecordSetForm
    /\ CallA # None
    /\ CallA.imm
    /\ CallB.items \ CallA.items # {}

\* C20: attribute assignment and deletion on an object of an immutable class
\* succeed exactly while its outermost decorated constructor runs: the object
\* has _immutable_init from the outermost call until the outermost return,
\* through the nested decorated constructors; the attribute is removed once,
\* also when a constructor raises, and no removal fails; all this whatever
\* the truth value of the object
C20_MutationWindow ==
    (obj # NoObject)
        => /\ (obj.immutable_init = "self") <=> (obj.frames # <<>>)
           /\ (obj.attempt # NoAttempt)
                => ((obj.attempt.err = NoError) <=> obj.attempt.during)
           /\ obj.closes <= 1
           /\ (obj.phase \in {"constructed", "failed"}) => obj.closes = 1
           /\ obj.error # "AttributeError"

\* C20 for constructors that are not nested (a companion of C20, which fails
\* only when a nested decorated constructor ends while the object is false)
C20_NotNested ==
    (obj # NoObject /\ obj.cls.decorated = 1) => C20_MutationWindow

=============================================================================
